---- MODULE Spec2Model ----
(***************************************************************************)
(* dedup: removal of duplicate read pairs from paired-end FASTQ files.     *)
(* A model of src/dedup.cpp.  Text is modelled at the level of characters: *)
(* a string is a sequence of one-character strings, a line is a string as  *)
(* gzgets returns it (its terminating newline included), a file is a       *)
(* sequence of lines.  Every line is assumed shorter than the read buffer  *)
(* of read_fastq_record, so that one gzgets call returns one line.         *)
(***************************************************************************)
EXTENDS Naturals, Sequences, FiniteSets

VARIABLES
    backend,          \* "memory" | "bloom" | "sqlite"            (main:125)
    barcode_in_name,  \* --barcode-in-name                        (main:124)
    index_file,       \* TRUE iff --index was given               (main:123)
    read1_given,      \* TRUE iff --read1 was given               (main:123)
    read2_given,      \* TRUE iff --read2 was given               (main:123)
    file1, file2, file3,  \* contents of the read1, read2 and index files
    db,               \* rows of table hashes of dedup.sqlite (durable)
    table,            \* TRUE iff dedup.sqlite holds table hashes
    res,              \* the handles of the process: stream handles and store
    pc,               \* position of main
    total_reads,      \* main:163
    p1, p2, p3,       \* lines consumed from f1, f2, f3
    r1, r2, r3,       \* FastqRecord r1, r2, r3 (main:207)
    out1, out2,       \* contents of the two nodup_ files
    seen,             \* std::unordered_set seen (main:194)
    bloom,            \* bits set in the bloom filter
    processed, dup, written,  \* main:208
    stderr_log,       \* what the run reported on std::cerr (counters only)
    log,              \* history: one entry per classified pair of this run
    run               \* history: which run this is, and how it was started

vars == <<backend, barcode_in_name, index_file, read1_given, read2_given,
          file1, file2, file3, db, table, res, pc,
          total_reads, p1, p2, p3, r1, r2, r3, out1, out2, seen, bloom,
          processed, dup, written, stderr_log, log, run>>

\* The options and the input files: no step of a run changes them.
config == <<backend, barcode_in_name, index_file, read1_given, read2_given,
            file1, file2, file3>>

----------------------------------------------------------------------------
(* Bounds of the model.                                                    *)

\* Longest input stream, in quartets.
MaxRecs == 2

\* Longest input stream, in quartets, of the runs of the bloom backend
\* that SpecBloom explores.
MaxRecsBloom == 3

\* Longest input stream, in quartets, of the runs that SpecShort explores.
MaxRecsShort == 1

\* The progress line is printed every ProgressEvery pairs.  The program
\* prints it every 100000 pairs (dedup.cpp:243); the model scales the
\* period down so that the emission happens within MaxRecs pairs.
ProgressEvery == 2

\* Number of bits of the bloom filter's table.
BloomBits == 2

----------------------------------------------------------------------------
(* Text.                                                                   *)

NL == "\n"

Min(a, b) == IF a <= b THEN a ELSE b

\* std::string::find(' '): index of the first c in s, 0 when there is none.
find(s, c) ==
    IF \E i \in 1..Len(s) : s[i] = c
    THEN CHOOSE i \in 1..Len(s) : s[i] = c /\ \A j \in 1..(i-1) : s[j] # c
    ELSE 0

\* std::string::rfind(':'): index of the last c in s, 0 when there is none.
rfind(s, c) ==
    IF \E i \in 1..Len(s) : s[i] = c
    THEN CHOOSE i \in 1..Len(s) : s[i] = c /\ \A j \in (i+1)..Len(s) : s[j] # c
    ELSE 0

\* extract_barcode_from_name (dedup.cpp:85-91)
extract_barcode_from_name(header) ==
    LET space_pos == find(header, " ")
        main_part == IF space_pos = 0 THEN header
                     ELSE SubSeq(header, 1, space_pos - 1)
        last_colon == rfind(main_part, ":")
    IN  IF last_colon = 0 THEN <<>>
        ELSE SubSeq(main_part, last_colon + 1, Len(main_part))

\* sha256 (dedup.cpp:24-34): the hex rendering of the SHA-256 digest of the
\* data.  SHA-256 is taken to be collision free: the digest is modelled as
\* the data under a tag, so two digests are equal iff the data are equal,
\* and a digest is never equal to a string of the input.
sha256(data) == <<"sha256", data>>

----------------------------------------------------------------------------
(* FASTQ records and streams.                                              *)

\* struct FastqRecord (dedup.cpp:39-41); a fresh record holds empty strings.
FastqRecord == [id |-> <<>>, seq |-> <<>>, plus |-> <<>>, qual |-> <<>>]

\* A variant of read_fastq_record that tests the first gzgets only: a
\* trailing incomplete quartet is returned as a record.
read_fastq_record_firstline(file, pos, rec) ==
    LET avail == Len(file) - pos
    IN  [ok  |-> avail >= 1,
         pos |-> pos + Min(avail, 4),
         rec |-> [id   |-> IF avail >= 1 THEN file[pos + 1] ELSE rec.id,
                  seq  |-> IF avail >= 2 THEN file[pos + 2] ELSE rec.seq,
                  plus |-> IF avail >= 3 THEN file[pos + 3] ELSE rec.plus,
                  qual |-> IF avail >= 4 THEN file[pos + 4] ELSE rec.qual]]

\* read_fastq_record (dedup.cpp:46-57) on the file whose first pos lines
\* are consumed: each gzgets that succeeds consumes a line and assigns a
\* field, the first one that fails returns false and leaves the remaining
\* fields as they were.
read_fastq_record(file, pos, rec) ==
    LET avail == Len(file) - pos
    IN  [ok  |-> avail >= 4,
         pos |-> pos + Min(avail, 4),
         rec |-> [id   |-> IF avail >= 1 THEN file[pos + 1] ELSE rec.id,
                  seq  |-> IF avail >= 2 THEN file[pos + 2] ELSE rec.seq,
                  plus |-> IF avail >= 3 THEN file[pos + 3] ELSE rec.plus,
                  qual |-> IF avail >= 4 THEN file[pos + 4] ELSE rec.qual]]

\* gzputs of string s at the end of an output file: the bytes are appended,
\* so they continue the last line when that line has no newline yet.
gzputs(file, s) ==
    IF s = <<>> THEN file
    ELSE IF file # <<>> /\ file[Len(file)][Len(file[Len(file)])] # NL
         THEN [file EXCEPT ![Len(file)] = @ \o s]
         ELSE Append(file, s)

\* write_fastq_record (dedup.cpp:62-67)
write_fastq_record(file, rec) ==
    gzputs(gzputs(gzputs(gzputs(file, rec.id), rec.seq), rec.plus), rec.qual)

\* A variant of count_fastq_records that misses the last line of the file.
count_fastq_records_short(file) ==
    IF file = <<>> THEN 0 ELSE (Len(file) - 1) \div 4

\* count_fastq_records (dedup.cpp:72-80): lines / 4
count_fastq_records(file) == Len(file) \div 4

----------------------------------------------------------------------------
(* The inputs the model draws from.                                        *)

H_G  == <<"@", "r", ":", "G", " ", "1", NL>>
H_T  == <<"@", "r", ":", "T", " ", "1", NL>>
H_2  == <<"@", "r", " ", "2", NL>>
H_I  == <<"@", "r", " ", "3", NL>>
S_A  == <<"A", NL>>
S_AA == <<"A", "A", NL>>
PLUS == <<"+", NL>>
Qual(s) == [i \in 1..Len(s) |-> IF s[i] = NL THEN NL ELSE "I"]
Quartet(h, s) == <<h, s, PLUS, Qual(s)>>

\* The quartets the files are made of.  The headers of read 1 differ (in
\* their barcode) only when the barcode is asked for, and the sequences of
\* read 2 differ only when there is no index stream: each pair then has at
\* most six forms.
Reads1(bin) ==
    IF bin THEN {Quartet(H_G, S_A), Quartet(H_T, S_A), Quartet(H_G, S_AA)}
    ELSE {Quartet(H_G, S_A), Quartet(H_G, S_AA)}
Reads2(idx) ==
    IF idx THEN {Quartet(H_2, S_A)}
    ELSE {Quartet(H_2, S_A), Quartet(H_2, S_AA)}
Indexes == {Quartet(H_I, S_A), Quartet(H_I, S_AA)}

RECURSIVE Flatten(_)
Flatten(qs) == IF qs = <<>> THEN <<>> ELSE Head(qs) \o Flatten(Tail(qs))

\* Number of lines of a trailing, incomplete quartet that a file of reads
\* may end with.
Trails == {0, 2}

\* The files of at most max quartets of Q followed by the first t lines
\* of one more, t in T.
Files(Q, T, max) ==
    { Flatten(qs) \o SubSeq(Quartet(H_2, S_A), 1, t) :
        qs \in UNION {[1..n -> Q] : n \in 0..max}, t \in T }

\* Quartets(file): the number of complete quartets of a file.
Quartets(file) == Len(file) \div 4

----------------------------------------------------------------------------
(* The three stores.                                                       *)

\* SQLiteStore::is_unique (dedup.cpp:106-116) on table hashes holding rows,
\* with the result codes of sqlite3_prepare_v2 and sqlite3_step:
\*   prepare_rc # "SQLITE_OK"                     -> throws,
\*   step_rc = "SQLITE_DONE"  (the row was added) -> true,
\*   any other step_rc (SQLITE_CONSTRAINT, or an error such as SQLITE_FULL,
\*   SQLITE_IOERR, SQLITE_BUSY, SQLITE_READONLY)  -> false.
is_unique(rows, key, prepare_rc, step_rc) ==
    IF prepare_rc # "SQLITE_OK"
    THEN [thrown |-> TRUE, unique |-> FALSE, rows |-> rows]
    ELSE [thrown |-> FALSE,
          unique |-> (step_rc = "SQLITE_DONE"),
          rows   |-> IF step_rc = "SQLITE_DONE" THEN rows \cup {key} ELSE rows]

\* The result codes sqlite3_step can give for INSERT INTO hashes VALUES (key)
\* (hash TEXT PRIMARY KEY, dedup.cpp:102): SQLITE_DONE only when no row
\* holds the key, SQLITE_CONSTRAINT only when one does, an error in both.
StepCodes(rows, key) ==
    (IF key \in rows THEN {"SQLITE_CONSTRAINT"} ELSE {"SQLITE_DONE"})
        \cup {"SQLITE_IOERR"}

PrepareCodes == {"SQLITE_OK", "SQLITE_ERROR"}

\* bloom_filter (bloom_filter.hpp, not among the sources): a table of
\* BloomBits bits and two hash functions of the key.
CountA(s) == Cardinality({i \in 1..Len(s) : s[i] = "A"})
BloomHashes(key) == {Len(key[2]) % BloomBits, CountA(key[2]) % BloomBits}
bloom_contains(bits, key) == BloomHashes(key) \subseteq bits
bloom_insert(bits, key) == bits \cup BloomHashes(key)

----------------------------------------------------------------------------
(* main (dedup.cpp:122-265).                                               *)

\* chomp(s): s without its terminating newline.
chomp(s) ==
    IF s # <<>> /\ s[Len(s)] = NL THEN SubSeq(s, 1, Len(s) - 1) ELSE s

\* A variant of make_key that hashes the sequences without their newlines.
make_key_chomp(bin, idx, a, b, c) ==
    IF idx
    THEN sha256(chomp(c.seq) \o chomp(a.seq) \o chomp(b.seq))
    ELSE sha256(chomp(a.seq) \o chomp(b.seq))

\* A variant of make_key in which the barcode, when asked for, is taken
\* before the index stream is looked at.
make_key_barcode_first(bin, idx, a, b, c) ==
    IF bin THEN sha256(extract_barcode_from_name(a.id) \o a.seq \o b.seq)
    ELSE IF idx THEN sha256(c.seq \o a.seq \o b.seq)
    ELSE sha256(a.seq \o b.seq)

\* The key of a pair (dedup.cpp:211-221).  The statements are
\*     if (barcode_in_name) { key = sha256(barcode + r1.seq + r2.seq); }
\*     if (!index_file.empty()) { key = sha256(r3.seq + r1.seq + r2.seq); }
\*     else { key = sha256(r1.seq + r2.seq); }
\* a, b, c are r1, r2, r3 as they are when the key is computed.
make_key(bin, idx, a, b, c) ==
    LET key0 == <<>>
        key1 == IF bin
                THEN sha256(extract_barcode_from_name(a.id) \o a.seq \o b.seq)
                ELSE key0
        key2 == IF idx
                THEN sha256(c.seq \o a.seq \o b.seq)
                ELSE sha256(a.seq \o b.seq)
    IN  key2

\* A variant of memory_query that never inserts the key.
memory_query_noinsert(set, key) ==
    IF key \in set THEN [unique |-> FALSE, set |-> set]
    ELSE [unique |-> TRUE, set |-> set]

\* The store query of the in-memory backend (dedup.cpp:224-226).
memory_query(set, key) ==
    IF key \in set THEN [unique |-> FALSE, set |-> set]
    ELSE [unique |-> TRUE, set |-> set \cup {key}]

\* A variant of bloom_query that never inserts the key.
bloom_query_noinsert(bits, key) ==
    IF bloom_contains(bits, key) THEN [unique |-> FALSE, bits |-> bits]
    ELSE [unique |-> TRUE, bits |-> bits]

\* The store query of the bloom backend (dedup.cpp:229-231).
bloom_query(bits, key) ==
    IF bloom_contains(bits, key) THEN [unique |-> FALSE, bits |-> bits]
    ELSE [unique |-> TRUE, bits |-> bloom_insert(bits, key)]

\* A variant of count_pair that counts only the pairs it writes as
\* processed.
count_pair_written_only(unique, c) ==
    [processed |-> IF unique THEN c.processed + 1 ELSE c.processed,
     written   |-> IF unique THEN c.written + 1 ELSE c.written,
     dup       |-> IF unique THEN c.dup ELSE c.dup + 1]

\* The counters after a pair is classified (dedup.cpp:234-242).
count_pair(unique, c) ==
    [processed |-> c.processed + 1,
     written   |-> IF unique THEN c.written + 1 ELSE c.written,
     dup       |-> IF unique THEN c.dup ELSE c.dup + 1]

\* The progress line (dedup.cpp:243-249), printed when processed reaches a
\* multiple of the period; the entry records the counters at that point.
progress(errlog, c) ==
    IF c.processed % ProgressEvery = 0
    THEN Append(errlog, [at |-> "progress", processed |-> c.processed,
                         written |-> c.written, dup |-> c.dup])
    ELSE errlog

\* The rows dedup.sqlite may hold when the program starts: none (there is
\* no such file yet), or the key of a pair of an earlier run.
LeftRows(idx) ==
    {{}, {make_key(FALSE, idx, [FastqRecord EXCEPT !.seq = S_A],
                   [FastqRecord EXCEPT !.seq = S_A],
                   [FastqRecord EXCEPT !.seq = S_A])}}

\* The handles of a process (dedup.cpp:73, 167-189, 192-204): the handle of
\* the counting pass, the three inputs, the two outputs, the store.  Each is
\* "none" (not acquired), "open", "null" (the open failed: gzopen returned
\* a null handle), "closed" (released once) or "twice" (released twice).
Handles == {"scan", "f1", "f2", "f3", "out1", "out2", "store"}
NoHandles == [h \in Handles |-> "none"]

\* gzopen: the handle when the open succeeds (ok) and when it fails.
gzopen(ok) == IF ok THEN "open" ELSE "null"

\* gzclose, sqlite3_close, delete: the release of a handle.
release(st) ==
    IF st = "open" THEN "closed" ELSE IF st = "closed" THEN "twice" ELSE st

\* A variant of validate that reports an error only when both inputs are
\* missing.
validate_both_missing(g1, g2) == g1 \/ g2

\* The test of the required options (dedup.cpp:156): TRUE iff main goes on.
validate(g1, g2) == ~(~g1 \/ ~g2)

\* SQLiteStore::SQLiteStore (dedup.cpp:99-104) on a file that holds the
\* table or not, with the result codes of sqlite3_open and of the
\* sqlite3_exec of CREATE TABLE IF NOT EXISTS: a failed open throws, the
\* result of sqlite3_exec is not looked at.
SQLiteStore(tbl, open_rc, exec_rc) ==
    IF open_rc # "SQLITE_OK"
    THEN [thrown |-> TRUE, table |-> tbl]
    ELSE [thrown |-> FALSE, table |-> (tbl \/ exec_rc = "SQLITE_OK")]

\* The result codes of sqlite3_prepare_v2 of the INSERT (dedup.cpp:109):
\* without the table the statement cannot be prepared.
PrepareCodesFor(tbl) == IF tbl THEN PrepareCodes ELSE {"SQLITE_ERROR"}

\* The state of a process that starts (dedup.cpp:122-155).
Started ==
    /\ pc = "init"
    /\ res = NoHandles
    /\ total_reads = 0
    /\ p1 = 0 /\ p2 = 0 /\ p3 = 0
    /\ r1 = FastqRecord /\ r2 = FastqRecord /\ r3 = FastqRecord
    /\ out1 = <<>> /\ out2 = <<>>
    /\ seen = {} /\ bloom = {}
    /\ processed = 0 /\ dup = 0 /\ written = 0
    /\ stderr_log = <<>>
    /\ log = <<>>

\* The program is started with one of the backends on files of at most
\* max quartets; an input that is not given has no file.
InitWith(backends, max) ==
    /\ backend \in backends
    /\ barcode_in_name \in BOOLEAN
    /\ index_file \in BOOLEAN
    /\ read1_given \in BOOLEAN
    /\ read2_given \in BOOLEAN
    /\ file1 \in IF read1_given
                 THEN Files(Reads1(barcode_in_name), Trails, max) ELSE {<<>>}
    /\ file2 \in IF read2_given
                 THEN Files(Reads2(index_file), Trails, max) ELSE {<<>>}
    /\ file3 \in IF index_file THEN Files(Indexes, {0}, max) ELSE {<<>>}
    /\ db \in IF backend = "sqlite" THEN LeftRows(index_file) ELSE {{}}
    /\ table = (db # {})
    /\ run = [n |-> 1, how |-> "first", rows0 |-> db,
              prev |-> [pc |-> "none", processed |-> 0, written |-> 0,
                        dup |-> 0, log |-> <<>>]]
    /\ Started

Init == InitWith({"memory", "bloom", "sqlite"}, MaxRecs)

\* The runs of the bloom backend, on longer files.
InitBloom == InitWith({"bloom"}, MaxRecsBloom)

\* The runs on short files.
InitShort == InitWith({"memory", "bloom", "sqlite"}, MaxRecsShort)

\* dedup.cpp:156-159: without --read1 or --read2 main returns 1.
Validate ==
    /\ pc = "init"
    /\ pc' = IF validate(read1_given, read2_given) THEN "prescan" ELSE "exit1"
    /\ UNCHANGED <<config, db, table, res, total_reads, p1, p2, p3, r1, r2,
                   r3, out1, out2, seen, bloom, processed, dup, written,
                   stderr_log, log, run>>

\* dedup.cpp:161-164: count_fastq_records opens read 1, counts and closes;
\* when the open fails it throws, which ends the process.
PreScan ==
    /\ pc = "prescan"
    /\ \E ok \in (IF read1_given THEN BOOLEAN ELSE {FALSE}) :
          IF ok
          THEN /\ total_reads' = count_fastq_records(file1)
               /\ res' = [res EXCEPT !["scan"] = release(gzopen(TRUE))]
               /\ pc' = "open"
          ELSE /\ total_reads' = total_reads
               /\ res' = [res EXCEPT !["scan"] = gzopen(FALSE)]
               /\ pc' = "aborted"
    /\ UNCHANGED <<config, db, table, p1, p2, p3, r1, r2, r3, out1, out2,
                   seen, bloom, processed, dup, written, stderr_log, log,
                   run>>

\* dedup.cpp:166-189: the two inputs are opened and main returns 1 when one
\* of the opens failed; the index file, if given, is opened and main
\* returns 1 when that failed; the two output files are opened (created
\* empty) and the handles are not tested.
StreamOpen ==
    /\ pc = "open"
    /\ \E ok1 \in (IF read1_given THEN BOOLEAN ELSE {FALSE}),
          ok2 \in (IF read2_given THEN BOOLEAN ELSE {FALSE}),
          ok3, oko1, oko2 \in BOOLEAN :
          LET in12 == [res EXCEPT !["f1"] = gzopen(ok1), !["f2"] = gzopen(ok2)]
              in3  == [in12 EXCEPT !["f3"] = gzopen(ok3)]
              ins  == IF index_file THEN in3 ELSE in12
          IN  IF ~ok1 \/ ~ok2
              THEN /\ ok3 /\ oko1 /\ oko2
                   /\ res' = in12
                   /\ pc' = "exit1"
              ELSE IF index_file /\ ~ok3
              THEN /\ oko1 /\ oko2
                   /\ res' = in3
                   /\ pc' = "exit1"
              ELSE /\ (~index_file => ok3)
                   /\ res' = [ins EXCEPT !["out1"] = gzopen(oko1),
                                         !["out2"] = gzopen(oko2)]
                   /\ pc' = "backend"
    /\ p1' = 0 /\ p2' = 0 /\ p3' = 0
    /\ out1' = <<>> /\ out2' = <<>>
    /\ UNCHANGED <<config, db, table, total_reads, r1, r2, r3, seen, bloom,
                   processed, dup, written, stderr_log, log, run>>

\* dedup.cpp:191-208: the store is constructed (the rows of dedup.sqlite
\* are kept), the records and the counters are initialised.  An exception
\* of the constructor ends the process.
BackendInit ==
    /\ pc = "backend"
    /\ \E open_rc \in (IF backend = "sqlite"
                       THEN {"SQLITE_OK", "SQLITE_CANTOPEN"}
                       ELSE {"SQLITE_OK"}),
          exec_rc \in (IF backend = "sqlite" /\ ~table
                       THEN {"SQLITE_OK", "SQLITE_ERROR"}
                       ELSE {"SQLITE_OK"}) :
          LET st == IF backend = "sqlite"
                    THEN SQLiteStore(table, open_rc, exec_rc)
                    ELSE [thrown |-> FALSE, table |-> table]
          IN  /\ table' = st.table
              /\ res' = IF backend = "memory" THEN res
                        ELSE [res EXCEPT !["store"] = "open"]
              /\ pc' = IF st.thrown THEN "aborted" ELSE "loop"
    /\ seen' = {} /\ bloom' = {}
    /\ r1' = FastqRecord /\ r2' = FastqRecord /\ r3' = FastqRecord
    /\ processed' = 0 /\ dup' = 0 /\ written' = 0
    /\ UNCHANGED <<config, db, total_reads, p1, p2, p3, out1, out2,
                   stderr_log, log, run>>

\* The store query of the configured backend (dedup.cpp:223-232).
classify(be, key, set, bits, rows, prepare_rc, step_rc) ==
    IF be = "memory"
    THEN LET q == memory_query(set, key)
         IN  [thrown |-> FALSE, unique |-> q.unique,
              set |-> q.set, bits |-> bits, rows |-> rows]
    ELSE IF be = "sqlite"
    THEN LET q == is_unique(rows, key, prepare_rc, step_rc)
         IN  [thrown |-> q.thrown, unique |-> q.unique,
              set |-> set, bits |-> bits, rows |-> q.rows]
    ELSE LET q == bloom_query(bits, key)
         IN  [thrown |-> FALSE, unique |-> q.unique,
              set |-> set, bits |-> q.bits, rows |-> rows]

\* The two reads of the loop condition (dedup.cpp:210): the second is made
\* only when the first succeeds.
Read1 == read_fastq_record(file1, p1, r1)
Read2 == read_fastq_record(file2, p2, r2)

\* The read of the index stream (dedup.cpp:216); its result is not tested.
Read3 ==
    IF index_file THEN read_fastq_record(file3, p3, r3)
    ELSE [ok |-> FALSE, pos |-> p3, rec |-> r3]

\* write_fastq_record on the handle of an output file: gzputs on a null
\* handle writes nothing.
write_on(st, file, rec) ==
    IF st = "open" THEN write_fastq_record(file, rec) ELSE file

\* One iteration of the loop (dedup.cpp:210-250): a pair is read, its key
\* is derived, the store is queried, the pair is written or counted as a
\* duplicate.  An exception of the store leaves main and ends the process.
ProcessPair ==
    /\ pc = "loop"
    /\ Read1.ok /\ Read2.ok
    /\ LET key == make_key(barcode_in_name, index_file,
                           Read1.rec, Read2.rec, Read3.rec)
       IN  \E prepare_rc \in (IF backend = "sqlite" THEN PrepareCodesFor(table)
                              ELSE {"SQLITE_OK"}),
              step_rc \in (IF backend = "sqlite" THEN StepCodes(db, key)
                           ELSE {"SQLITE_DONE"}) :
             LET q == classify(backend, key, seen, bloom, db,
                               prepare_rc, step_rc)
                 c == count_pair(q.unique, [processed |-> processed,
                                            written |-> written, dup |-> dup])
             IN  /\ p1' = Read1.pos /\ r1' = Read1.rec
                 /\ p2' = Read2.pos /\ r2' = Read2.rec
                 /\ p3' = Read3.pos /\ r3' = Read3.rec
                 /\ IF q.thrown
                    THEN /\ pc' = "aborted"
                         /\ UNCHANGED <<seen, bloom, db, out1, out2, processed,
                                        written, dup, stderr_log, log>>
                    ELSE /\ pc' = "loop"
                         /\ seen' = q.set /\ bloom' = q.bits /\ db' = q.rows
                         /\ out1' = IF q.unique
                                    THEN write_on(res["out1"], out1, Read1.rec)
                                    ELSE out1
                         /\ out2' = IF q.unique
                                    THEN write_on(res["out2"], out2, Read2.rec)
                                    ELSE out2
                         /\ processed' = c.processed
                         /\ written' = c.written
                         /\ dup' = c.dup
                         /\ stderr_log' = progress(stderr_log, c)
                         /\ log' = Append(log,
                                [key |-> key, unique |-> q.unique,
                                 id1 |-> Read1.rec.id,
                                 seq1 |-> Read1.rec.seq,
                                 seq2 |-> Read2.rec.seq,
                                 seq3 |-> Read3.rec.seq,
                                 step_rc |-> step_rc,
                                 fresh |-> (key \notin db)])
    /\ UNCHANGED <<config, table, res, total_reads, run>>

\* The loop condition fails (dedup.cpp:210): what the failing reads
\* consumed stays consumed.
EndOfInput ==
    /\ pc = "loop"
    /\ ~(Read1.ok /\ Read2.ok)
    /\ p1' = Read1.pos /\ r1' = Read1.rec
    /\ p2' = (IF Read1.ok THEN Read2.pos ELSE p2)
    /\ r2' = (IF Read1.ok THEN Read2.rec ELSE r2)
    /\ pc' = "cleanup"
    /\ UNCHANGED <<config, db, table, res, total_reads, p3, r3, out1, out2,
                   seen, bloom, processed, dup, written, stderr_log, log, run>>

\* The handles after the cleanup (dedup.cpp:253-257): f3 is closed when it
\* is not null, the others are passed to gzclose or deleted as they are.
cleanup(h) ==
    [x \in Handles |->
        IF x \in {"f1", "f2", "f3", "out1", "out2", "store"}
        THEN release(h[x]) ELSE h[x]]

\* dedup.cpp:252-264: the handles are closed and the summary is printed.
Finalize ==
    /\ pc = "cleanup"
    /\ res' = cleanup(res)
    /\ stderr_log' = Append(stderr_log,
            [at |-> "summary", processed |-> processed,
             written |-> written, dup |-> dup])
    /\ pc' = "done"
    /\ UNCHANGED <<config, db, table, total_reads, p1, p2, p3, r1, r2, r3,
                   out1, out2, seen, bloom, processed, dup, written, log, run>>

----------------------------------------------------------------------------
(* Further runs of the program.                                            *)

\* Number of runs of the program in one behaviour.
MaxRuns == 2

\* What a run leaves for the history of the next one.
Summary ==
    [pc |-> pc, processed |-> processed, written |-> written, dup |-> dup,
     log |-> log]

\* A new process starts (dedup.cpp:122-155).
StartProcess ==
    /\ pc' = "init"
    /\ res' = NoHandles
    /\ total_reads' = 0
    /\ p1' = 0 /\ p2' = 0 /\ p3' = 0
    /\ r1' = FastqRecord /\ r2' = FastqRecord /\ r3' = FastqRecord
    /\ out1' = <<>> /\ out2' = <<>>
    /\ seen' = {} /\ bloom' = {}
    /\ processed' = 0 /\ dup' = 0 /\ written' = 0
    /\ stderr_log' = <<>>
    /\ log' = <<>>

\* The program is run again with the same options on the same inputs;
\* dedup.sqlite is as the previous run left it (dedup.cpp:99-104, 197).
RunAgain ==
    /\ pc \in {"done", "aborted"}
    /\ run.n < MaxRuns
    /\ run' = [n |-> run.n + 1, how |-> "same", rows0 |-> db,
               prev |-> Summary]
    /\ StartProcess
    /\ UNCHANGED <<config, db, table>>

\* The program is run with the same options on the two output files of a
\* completed run that could open both, after dedup.sqlite was removed; the
\* index file, of which the program writes no filtered copy, is the same.
RunOnOutput ==
    /\ pc = "done"
    /\ res["out1"] = "closed" /\ res["out2"] = "closed"
    /\ run.n < MaxRuns
    /\ run' = [n |-> run.n + 1, how |-> "output", rows0 |-> {},
               prev |-> Summary]
    /\ file1' = out1 /\ file2' = out2
    /\ db' = {} /\ table' = FALSE
    /\ StartProcess
    /\ UNCHANGED <<backend, barcode_in_name, index_file, read1_given,
                   read2_given, file3>>

\* One run of the program.
Next ==
    \/ Validate
    \/ PreScan
    \/ StreamOpen
    \/ BackendInit
    \/ ProcessPair
    \/ EndOfInput
    \/ Finalize

Spec == Init /\ [][Next]_vars

SpecBloom == InitBloom /\ [][Next]_vars

\* The runs on short files, of all backends.
SpecShort == InitShort /\ [][Next]_vars

\* Runs of the program one after the other.
NextRuns ==
    \/ Validate
    \/ PreScan
    \/ StreamOpen
    \/ BackendInit
    \/ ProcessPair
    \/ EndOfInput
    \/ Finalize
    \/ RunAgain
    \/ RunOnOutput

SpecRuns == Init /\ [][NextRuns]_vars

----------------------------------------------------------------------------
(* The claims.                                                             *)

Exact == backend \in {"memory", "sqlite"}

\* The barcode of an entry of the log, as the specification defines it.
Barcode(e) == extract_barcode_from_name(e.id1)

\* The fingerprint of an entry of the log as the specification defines it
\* for the configured mode (section 4.2); with both the barcode flag and an
\* index stream configured the specification defines none, and the index
\* mode is taken.
Fingerprint(e) ==
    IF index_file THEN sha256(e.seq3 \o e.seq1 \o e.seq2)
    ELSE IF barcode_in_name THEN sha256(Barcode(e) \o e.seq1 \o e.seq2)
    ELSE sha256(e.seq1 \o e.seq2)

NumUnique(l) == Cardinality({i \in 1..Len(l) : l[i].unique})

\* The open of the handle succeeded.
Opened(h) == res[h] \in {"open", "closed"}

\* C1: at every observation point of a run (each progress line, the start
\* of each loop iteration, the final summary) processed = written +
\* duplicates, with any backend and any barcode mode.
C1_CountersBalanced ==
    /\ pc \in {"loop", "cleanup", "done"} => processed = written + dup
    /\ \A i \in 1..Len(stderr_log) :
          stderr_log[i].processed = stderr_log[i].written + stderr_log[i].dup

\* A progress line was printed after a pair was written and another was
\* counted as a duplicate, and the summary was printed.
C1_Witness ==
    /\ pc = "done"
    /\ \E i \in 1..Len(stderr_log) :
          /\ stderr_log[i].at = "progress"
          /\ stderr_log[i].written > 0 /\ stderr_log[i].dup > 0
    /\ stderr_log[Len(stderr_log)].at = "summary"

\* C2: with an exact backend (in-memory or persistent), no two pairs written
\* during one run share a fingerprint: neither the key the program hashed
\* nor the fingerprint of the specification; an output file that could be
\* opened holds exactly the pairs classified Unique.
C2_WrittenDistinct ==
    Exact =>
        /\ \A i, j \in 1..Len(log) :
              (i < j /\ log[i].unique /\ log[j].unique)
                 => /\ log[i].key # log[j].key
                    /\ Fingerprint(log[i]) # Fingerprint(log[j])
        /\ Opened("out1") => Len(out1) = 4 * NumUnique(log)
        /\ Opened("out2") => Len(out2) = 4 * NumUnique(log)
        /\ written = NumUnique(log)

\* The persistent backend wrote a pair and rejected a later pair of the
\* same key on the uniqueness constraint.
C2_Witness ==
    /\ backend = "sqlite"
    /\ \E i, j \in 1..Len(log) :
          /\ i < j /\ log[i].key = log[j].key
          /\ log[i].unique /\ ~log[j].unique
          /\ log[j].step_rc = "SQLITE_CONSTRAINT"
    /\ Len(out1) = 4

\* C3: in name-embedded barcode mode (barcode flag set, no index stream) the
\* key of a pair is digest(barcode ++ sequence(read1) ++ sequence(read2)),
\* so with the in-memory backend a pair is Unique whenever no earlier pair
\* has the same barcode and the same two sequences: two pairs of identical
\* sequences and different barcodes are both written.
C3_BarcodeInKey ==
    (barcode_in_name /\ ~index_file) =>
        /\ \A i \in 1..Len(log) :
              log[i].key = sha256(Barcode(log[i]) \o log[i].seq1 \o log[i].seq2)
        /\ backend = "memory" =>
              \A j \in 1..Len(log) :
                 (\A i \in 1..(j-1) :
                     \/ Barcode(log[i]) # Barcode(log[j])
                     \/ log[i].seq1 # log[j].seq1
                     \/ log[i].seq2 # log[j].seq2)
                 => log[j].unique

\* C4 as stated: when read stream 1 holds more quartets than read stream 2,
\* the loop ends after as many pairs as stream 2 holds, and no record of
\* stream 1 beyond that count is read from the stream.
C4_RestNeverRead ==
    Quartets(file1) > Quartets(file2) =>
        /\ p1 <= 4 * Quartets(file2)
        /\ pc \in {"cleanup", "done"} => processed = Quartets(file2)

\* C4, amended: when read stream 1 holds more quartets than read stream 2,
\* the loop ends after as many pairs as stream 2 holds; exactly one further
\* record of stream 1 is read from the stream (into r1) before the end of
\* stream 2 is seen, and it is neither written, counted nor reported; the
\* records after that one are never read.
C4_OneMoreRead ==
    Quartets(file1) > Quartets(file2) =>
        /\ p1 <= 4 * (Quartets(file2) + 1)
        /\ processed <= Quartets(file2)
        /\ Len(log) = processed
        /\ Len(out1) <= 4 * processed
        /\ pc \in {"cleanup", "done"} =>
              /\ processed = Quartets(file2)
              /\ p1 = 4 * (Quartets(file2) + 1)
              /\ r1 = [id   |-> file1[4 * Quartets(file2) + 1],
                       seq  |-> file1[4 * Quartets(file2) + 2],
                       plus |-> file1[4 * Quartets(file2) + 3],
                       qual |-> file1[4 * Quartets(file2) + 4]]
        /\ \A i \in 1..Len(stderr_log) :
              stderr_log[i].processed <= Quartets(file2)

\* A completed run on a stream 1 of two quartets more than stream 2: the
\* first of the two was read, the second was not.
C4_Witness ==
    /\ pc = "done"
    /\ Quartets(file1) = Quartets(file2) + 2
    /\ p1 = 4 * (Quartets(file2) + 1)
    /\ p1 < Len(file1)

\* C5: the bloom backend gives no false negative: a pair whose key was
\* presented at an earlier position of the run is reported Duplicate and is
\* not written, whether the earlier presentation was reported Unique (and
\* inserted) or Duplicate (and not inserted).
C5_NoFalseNegative ==
    backend = "bloom" =>
        /\ \A i, j \in 1..Len(log) :
              (i < j /\ log[i].key = log[j].key) => ~log[j].unique
        /\ Opened("out1") => Len(out1) = 4 * NumUnique(log)
        /\ Opened("out2") => Len(out2) = 4 * NumUnique(log)

\* A key was first presented at position 2, reported Duplicate there (a
\* false positive, nothing is inserted), and presented again at position 3.
C5_Witness ==
    /\ backend = "bloom"
    /\ Len(log) = 3
    /\ log[1].unique
    /\ log[1].key # log[2].key
    /\ ~log[2].unique
    /\ log[3].key = log[2].key
    /\ ~log[3].unique

\* C6: with the in-memory backend in plain mode a pair is Duplicate iff an
\* earlier pair of the run has the same read-1 and the same read-2
\* sequence; the first pair of each fingerprint is written, so written is
\* the number of distinct fingerprints processed.
C6_MemoryExact ==
    (backend = "memory" /\ ~barcode_in_name /\ ~index_file) =>
        /\ \A j \in 1..Len(log) :
              ~log[j].unique <=>
                  \E i \in 1..(j-1) : /\ log[i].seq1 = log[j].seq1
                                      /\ log[i].seq2 = log[j].seq2
        /\ written = Cardinality({<<log[i].seq1, log[i].seq2>> :
                                    i \in 1..Len(log)})
        /\ written = Cardinality({Fingerprint(log[i]) : i \in 1..Len(log)})
        /\ Opened("out1") => Len(out1) = 4 * written
        /\ Opened("out2") => Len(out2) = 4 * written

\* Scenario A: two pairs of identical sequences, the first written, the
\* second a duplicate.
C6_Witness ==
    /\ backend = "memory" /\ ~barcode_in_name /\ ~index_file
    /\ pc = "done"
    /\ Len(log) = 2
    /\ log[1].seq1 = log[2].seq1 /\ log[1].seq2 = log[2].seq2
    /\ log[1].unique /\ ~log[2].unique
    /\ written = 1 /\ dup = 1 /\ processed = 2

\* C7: idempotence: the two output files of a completed run with an exact
\* backend, given as the inputs of a second run with an empty store of the
\* same kind and the same options, are written out whole: written =
\* processed, no duplicate, and the output equals the input (the output
\* files of the second run could be opened).
C7_Idempotent ==
    (/\ run.how = "output" /\ run.prev.pc = "done" /\ Exact /\ pc = "done"
     /\ Opened("out1") /\ Opened("out2")) =>
        /\ written = processed
        /\ dup = 0
        /\ out1 = file1 /\ out2 = file2

\* C8: in external-index mode, with three streams of the same number of
\* complete quartets and an exact backend whose store is empty when the run
\* starts, the pair at position k is Duplicate iff an earlier position has
\* the same index, read-1 and read-2 sequences.
C8_IndexExact ==
    (/\ index_file /\ ~barcode_in_name /\ Exact /\ run.rows0 = {}
     /\ Len(file1) = Len(file2) /\ Len(file2) = Len(file3)
     /\ Len(file1) % 4 = 0) =>
        \A k \in 1..Len(log) :
           ~log[k].unique <=>
               \E j \in 1..(k-1) :
                  /\ file3[4 * (j-1) + 2] = file3[4 * (k-1) + 2]
                  /\ file1[4 * (j-1) + 2] = file1[4 * (k-1) + 2]
                  /\ file2[4 * (j-1) + 2] = file2[4 * (k-1) + 2]

\* C9: when the program is run a second time on the same inputs against
\* the dedup.sqlite that a completed first run left, every record of the
\* second run is Duplicate: nothing is written and duplicates = processed.
C9_SecondRunAllDuplicate ==
    (backend = "sqlite" /\ run.how = "same" /\ run.prev.pc = "done") =>
        /\ \A i \in 1..Len(log) : ~log[i].unique
        /\ written = 0
        /\ out1 = <<>> /\ out2 = <<>>
        /\ pc \in {"loop", "cleanup", "done"} => dup = processed

\* C10: with the persistent backend a pair is classified only when the
\* insertion succeeded (Unique) or violated the uniqueness constraint
\* (Duplicate); any other failure of the store aborts the run, so no
\* classified pair has another result code, and a Duplicate is always a
\* constraint violation.
C10_StoreFailureFatal ==
    backend = "sqlite" =>
        \A i \in 1..Len(log) :
           /\ log[i].step_rc \in {"SQLITE_DONE", "SQLITE_CONSTRAINT"}
           /\ log[i].unique <=> log[i].step_rc = "SQLITE_DONE"
           /\ ~log[i].unique <=> log[i].step_rc = "SQLITE_CONSTRAINT"

\* The streams of which an open failed in this run.
FailedOpens == {h \in Handles \ {"store"} : res[h] = "null"}

\* The Processing loop was entered: the process is in it, is past it, or
\* left it on an exception after a record was read.
LoopEntered ==
    \/ pc \in {"loop", "cleanup", "done"}
    \/ pc = "aborted" /\ p1 > 0

\* C11: a failure to open any of the streams (read 1 in the counting pass
\* or in main, read 2, the index file, either output file) is fatal: the
\* Processing loop is never entered and the run does not end with status 0.
C11_OpenFailureFatal ==
    FailedOpens # {} => (~LoopEntered /\ pc # "done")

\* C12: the construction of the persistent store fails fatally both when
\* dedup.sqlite cannot be opened and when table hashes cannot be
\* established: after a construction that leaves no table the run is
\* aborted before the Processing loop, no record read, classified or
\* written.
C12_StoreConstructionFatal ==
    (backend = "sqlite" /\ res["store"] # "none" /\ ~table) =>
        /\ pc = "aborted"
        /\ ~LoopEntered
        /\ p1 = 0 /\ p2 = 0
        /\ log = <<>> /\ out1 = <<>> /\ out2 = <<>>

\* The process has ended: main returned 0 ("done") or 1 ("exit1"), or an
\* exception left main ("aborted").
Exited == pc \in {"done", "exit1", "aborted"}

\* C13: every stream handle and every store connection that was acquired
\* is released exactly once on every exit path: when the process has ended
\* no handle is still open and none was released twice.
C13_AllReleasedOnce ==
    /\ \A h \in Handles : res[h] # "twice"
    /\ Exited => \A h \in Handles : res[h] # "open"

\* C14: when read 1 or read 2 is not configured the run ends in Init with
\* a nonzero status before any I/O: no counting pass, no open of a stream
\* attempted, no store constructed, nothing read or written.
C14_MissingInputNoIO ==
    (~read1_given \/ ~read2_given) =>
        /\ pc \in {"init", "exit1"}
        /\ res = NoHandles
        /\ total_reads = 0
        /\ p1 = 0 /\ p2 = 0 /\ p3 = 0
        /\ log = <<>> /\ out1 = <<>> /\ out2 = <<>>
        /\ db = run.rows0

\* A run started with --read2 and without --read1 has ended with status 1.
C14_Witness ==
    /\ ~read1_given /\ read2_given
    /\ file2 # <<>>
    /\ pc = "exit1"
    /\ res = NoHandles

\* The record of position k of a stream.
RecordAt(file, k) ==
    [id   |-> file[4 * (k-1) + 1], seq  |-> file[4 * (k-1) + 2],
     plus |-> file[4 * (k-1) + 3], qual |-> file[4 * (k-1) + 4]]

\* The key that the code derives for position k from the three inputs
\* alone, when position k of the index stream exists or no index stream is
\* configured: the quartets of position k, nothing of the backend, nothing
\* of the store, nothing of an earlier position.
KeyAt(k) ==
    make_key(barcode_in_name, index_file, RecordAt(file1, k),
             RecordAt(file2, k),
             IF index_file THEN RecordAt(file3, k) ELSE FastqRecord)

\* The decision of the in-memory backend at position k, from the inputs
\* alone: Unique iff no earlier position has the key of position k.
MemoryDecision(k) == \A j \in 1..(k-1) : KeyAt(j) # KeyAt(k)

\* C15: the fingerprint of a pair depends only on the mode and the inputs
\* of its position, never on the backend or on earlier records, so a run
\* of the in-memory backend and a run of the persistent backend on an
\* empty store make the same decision at every position and have the same
\* outputs and counters: with either backend, position k has the key the
\* inputs give and the decision the in-memory semantics gives, and the
\* counters and the outputs are those of these decisions.  (Index streams
\* no shorter than the read streams; output files that could be opened.)
C15_BackendsAgree ==
    (/\ Exact /\ run.rows0 = {}
     /\ index_file => Quartets(file3) >= Min(Quartets(file1), Quartets(file2))
     /\ Opened("out1") /\ Opened("out2")) =>
        /\ \A k \in 1..Len(log) :
              /\ log[k].key = KeyAt(k)
              /\ log[k].unique <=> MemoryDecision(k)
        /\ pc \in {"loop", "cleanup", "done"} =>
              /\ processed = Len(log)
              /\ written = Cardinality({k \in 1..Len(log) : MemoryDecision(k)})
              /\ Len(out1) = 4 * written /\ Len(out2) = 4 * written

\* C16: in external-index mode the pair of position k is fingerprinted
\* with the index record of position k of the index stream, never with an
\* index sequence of another position, also when the index stream holds
\* fewer quartets than the read streams: every pair that was classified
\* has an index record at its position, and the index sequence in its key
\* is the sequence of that record.
C16_IndexSamePosition ==
    index_file =>
        \A k \in 1..Len(log) :
           /\ k <= Quartets(file3)
           /\ log[k].seq3 = file3[4 * (k-1) + 2]
           /\ log[k].key = sha256(file3[4 * (k-1) + 2] \o file1[4 * (k-1) + 2]
                                  \o file2[4 * (k-1) + 2])

\* C17: with both the barcode flag and an index stream configured the
\* index mode takes precedence: the key of every pair is digest(index
\* sequence ++ read-1 sequence ++ read-2 sequence), the index sequence
\* being the one of the pair's position whenever the index stream has that
\* position; the barcode of the name influences no decision: with the
\* in-memory backend a pair is Duplicate iff an earlier pair has the same
\* three sequences, whatever the barcodes.
C17_IndexPrecedence ==
    (barcode_in_name /\ index_file) =>
        /\ \A k \in 1..Len(log) :
              /\ log[k].key = sha256(log[k].seq3 \o log[k].seq1 \o log[k].seq2)
              /\ k <= Quartets(file3) => log[k].seq3 = file3[4 * (k-1) + 2]
        /\ backend = "memory" =>
              \A k \in 1..Len(log) :
                 ~log[k].unique <=>
                     \E j \in 1..(k-1) : /\ log[j].seq3 = log[k].seq3
                                         /\ log[j].seq1 = log[k].seq1
                                         /\ log[j].seq2 = log[k].seq2

\* With both configured, two pairs of the same three sequences and of
\* different barcodes: the second is a Duplicate.
C17_Witness ==
    /\ barcode_in_name /\ index_file /\ backend = "memory"
    /\ Len(log) = 2 /\ Quartets(file3) = 2
    /\ Barcode(log[1]) # Barcode(log[2])
    /\ log[1].seq3 = log[2].seq3
    /\ log[1].seq1 = log[2].seq1 /\ log[1].seq2 = log[2].seq2
    /\ log[1].unique /\ ~log[2].unique
    /\ dup = 1 /\ written = 1

\* The number of steps main has before it at most, after a position of
\* the control: the stages before the end, and in the loop the lines of
\* read 1 not yet consumed.
Stage(at) ==
    CASE at = "init"    -> 6
      [] at = "prescan" -> 5
      [] at = "open"    -> 4
      [] at = "backend" -> 3
      [] at = "loop"    -> 2
      [] at = "cleanup" -> 1
      [] OTHER          -> 0
Variant == Stage(pc) + (Len(file1) - p1)

\* The number of pairs the two read streams hold.
Pairs == Min(Quartets(file1), Quartets(file2))

\* C18 as stated: for finite inputs the Processing loop always terminates
\* and reaches Finalize: a run that entered the loop (with the table of
\* the persistent store established) does not end anywhere else; at
\* Finalize processed is the minimum of the numbers of complete quartets
\* of read 1 and read 2.
C18_AlwaysFinalize ==
    /\ (LoopEntered /\ (backend = "sqlite" => table))
          => pc \in {"loop", "cleanup", "done"}
    /\ pc \in {"cleanup", "done"} => processed = Pairs

\* C18, amended: for finite inputs the Processing loop always terminates
\* (every step of a run lowers a bounded measure, and a run stops only
\* where main has ended); it ends in Finalize unless an exception of the
\* persistent store ends the run; the loop never processes more than the
\* pairs the two read streams hold, and at Finalize processed is exactly
\* the minimum of the numbers of complete quartets of read 1 and read 2,
\* a trailing partial quartet not being processed.
C18_TerminatesAtMin ==
    /\ [](/\ Exited \/ ENABLED Next
          /\ Variant >= 0
          /\ (LoopEntered /\ pc = "aborted") => backend = "sqlite"
          /\ LoopEntered => processed <= Pairs
          /\ pc \in {"cleanup", "done"} => processed = Pairs)
    /\ [][Variant' < Variant]_vars

\* A completed run on a read 1 of one quartet and a trailing half quartet
\* and a read 2 of one quartet: one pair was processed, the half quartet
\* was consumed as the end of the stream.
C18_Witness ==
    /\ pc = "done"
    /\ Len(file1) = 6 /\ Len(file2) = 4
    /\ processed = 1
    /\ p1 = 6 /\ p2 = 4

\* The quartets of the first k positions of an input that were classified
\* Unique, one after the other.
RECURSIVE CopyOfUnique(_, _)
CopyOfUnique(file, k) ==
    IF k = 0 THEN <<>>
    ELSE CopyOfUnique(file, k - 1)
         \o (IF log[k].unique THEN SubSeq(file, 4 * (k-1) + 1, 4 * k)
             ELSE <<>>)

\* C19: after every iteration of the loop the two outputs are
\* pair-synchronized: each holds written records, the k-th record of
\* output 1 and the k-th record of output 2 are the quartets of read 1 and
\* of read 2 at the position of the k-th pair classified Unique, in input
\* order, copied line for line.
C19_OutputsSynchronized ==
    pc \in {"loop", "cleanup", "done"} =>
        /\ Len(out1) = 4 * written
        /\ Len(out2) = 4 * written
        /\ out1 = CopyOfUnique(file1, Len(log))
        /\ out2 = CopyOfUnique(file2, Len(log))

\* The percentage of a progress line, 100.0 * processed / total_reads
\* (dedup.cpp:244), is at most 100.
PercentAtMost100(done, total) == total > 0 /\ 100 * done <= 100 * total

\* C20: in every state of the Processing loop processed is at most the
\* total of the counting pass, which is the number of quartets of read 1;
\* so the keys presented to the bloom filter are at most its
\* projected_element_count (the total), and the percentage of every
\* progress line is at most 100.
C20_ProcessedWithinTotal ==
    LoopEntered =>
        /\ total_reads = Quartets(file1)
        /\ processed <= total_reads
        /\ Len(log) <= total_reads
        /\ \A i \in 1..Len(stderr_log) :
              stderr_log[i].at = "progress" =>
                 PercentAtMost100(stderr_log[i].processed, total_reads)

\* A completed run of the bloom backend that processed as many pairs as
\* the counting pass counted, and printed a progress line at 100 percent.
C20_Witness ==
    /\ backend = "bloom" /\ pc = "done"
    /\ total_reads = 2 /\ processed = 2 /\ Len(log) = 2
    /\ \E i \in 1..Len(stderr_log) :
          /\ stderr_log[i].at = "progress"
          /\ stderr_log[i].processed = total_reads

====
